---- MODULE Spec2Model ----
(***************************************************************************)
(* The classification-and-dispatch pipeline of the email automation        *)
(* system: EmailAutomationSystem.process_email, its per-category handlers, *)
(* EmailProcessor.classify_email / generate_response and the outcome log   *)
(* of email_automation_service.                                            *)
(*                                                                         *)
(* Text is modelled as a sequence of one-character strings, so that        *)
(* strip(), lower(), startswith(), slicing, the digit test and JSON        *)
(* parsing are computed character by character.                            *)
(***************************************************************************)
EXTENDS Integers, Sequences, FiniteSets, TLC

\* Python's None, and the marker of a key a dict does not hold.  Neither is
\* a sequence of one-character strings, so neither equals any text.
None == <<"NoneType">>
Absent == <<"KeyError">>

isinstance_str(x) == x # None /\ x # Absent

(***************************************************************************)
(* str methods                                                             *)
(***************************************************************************)
IsSpace(c) == c \in {" ", "\t", "\n", "\r", "\f"}

IsDigit(c) == c \in {"0", "1", "2", "3", "4", "5", "6", "7", "8", "9"}

UpperCase ==
    <<"A","B","C","D","E","F","G","H","I","J","K","L","M",
      "N","O","P","Q","R","S","T","U","V","W","X","Y","Z">>

LowerCase ==
    <<"a","b","c","d","e","f","g","h","i","j","k","l","m",
      "n","o","p","q","r","s","t","u","v","w","x","y","z">>

LowerChar(c) ==
    IF \E i \in 1..Len(UpperCase) : UpperCase[i] = c
    THEN LowerCase[CHOOSE i \in 1..Len(UpperCase) : UpperCase[i] = c]
    ELSE c

lower(s) == [i \in 1..Len(s) |-> LowerChar(s[i])]

RECURSIVE lstrip(_)
lstrip(s) == IF s # <<>> /\ IsSpace(Head(s)) THEN lstrip(Tail(s)) ELSE s

RECURSIVE rstrip(_)
rstrip(s) ==
    IF s # <<>> /\ IsSpace(s[Len(s)]) THEN rstrip(SubSeq(s, 1, Len(s) - 1)) ELSE s

strip(s) == rstrip(lstrip(s))

startswith(s, p) == Len(s) >= Len(p) /\ SubSeq(s, 1, Len(p)) = p

endswith(s, p) == Len(s) >= Len(p) /\ SubSeq(s, Len(s) - Len(p) + 1, Len(s)) = p

\* s[3:-3]
Slice3(s) == SubSeq(s, 4, Len(s) - 3)

\* any(char.isdigit() for char in s)
any_isdigit(s) == \E i \in 1..Len(s) : IsDigit(s[i])

\* sub in s
Contains(s, sub) ==
    \E i \in 1..(Len(s) - Len(sub) + 1) : SubSeq(s, i, i + Len(sub) - 1) = sub

RECURSIVE Join(_, _)
Join(parts, sep) ==
    IF parts = <<>> THEN <<>>
    ELSE IF Len(parts) = 1 THEN parts[1]
    ELSE parts[1] \o sep \o Join(Tail(parts), sep)

(***************************************************************************)
(* json.loads, for the JSON subset of objects, arrays, strings without     *)
(* escapes, integers, true, false and null.  A parsed value is a record    *)
(* [t, v]: t is the Python type name, v the payload (text of a str, digits *)
(* of an int, the items of a list, the <<key, value>> pairs of a dict).    *)
(***************************************************************************)
JsonWs == {" ", "\t", "\n", "\r"}

\* the grave accent character, written by name: the character itself is not
\* used in this module's text
BT == "GRAVE ACCENT"

Fence == <<BT, BT, BT>>

complaint ==
    <<"c","o","m","p","l","a","i","n","t">>
inquiry ==
    <<"i","n","q","u","i","r","y">>
feedback ==
    <<"f","e","e","d","b","a","c","k">>
support_request ==
    <<"s","u","p","p","o","r","t","_","r","e","q","u","e","s","t">>
other ==
    <<"o","t","h","e","r">>
key_classification ==
    <<"c","l","a","s","s","i","f","i","c","a","t","i","o","n">>
key_Classification ==
    <<"C","l","a","s","s","i","f","i","c","a","t","i","o","n">>
key_category ==
    <<"c","a","t","e","g","o","r","y">>
key_Category ==
    <<"C","a","t","e","g","o","r","y">>
py_True ==
    <<"T","r","u","e">>
py_False ==
    <<"F","a","l","s","e">>
py_None ==
    <<"N","o","n","e">>
js_true ==
    <<"t","r","u","e">>
js_false ==
    <<"f","a","l","s","e">>
js_null ==
    <<"n","u","l","l">>

ParseFail == [ok |-> FALSE, val |-> [t |-> "NoneType", v |-> None], next |-> 0]

ParseOk(val, next) == [ok |-> TRUE, val |-> val, next |-> next]

RECURSIVE SkipWs(_, _)
SkipWs(s, i) == IF i <= Len(s) /\ s[i] \in JsonWs THEN SkipWs(s, i + 1) ELSE i

\* index of the quote closing the string opened before j, 0 when there is none
RECURSIVE ScanString(_, _)
ScanString(s, j) ==
    IF j > Len(s) THEN 0
    ELSE IF s[j] = "\"" THEN j
    ELSE IF s[j] \in {"\\", "\n", "\t", "\r", "\f"} THEN 0
    ELSE ScanString(s, j + 1)

ParseString(s, i) ==
    LET j == ScanString(s, i + 1)
    IN  IF j = 0 THEN ParseFail
        ELSE ParseOk([t |-> "str", v |-> SubSeq(s, i + 1, j - 1)], j + 1)

RECURSIVE ScanDigits(_, _)
ScanDigits(s, j) == IF j <= Len(s) /\ IsDigit(s[j]) THEN ScanDigits(s, j + 1) ELSE j

ParseInt(s, i) ==
    LET d == IF s[i] = "-" THEN i + 1 ELSE i
        e == IF d <= Len(s) /\ s[d] = "0" THEN d + 1 ELSE ScanDigits(s, d)
    IN  IF e = d THEN ParseFail
        ELSE ParseOk([t |-> "int", v |-> SubSeq(s, i, e - 1)], e)

ParseLiteral(s, i, word, val) ==
    IF startswith(SubSeq(s, i, Len(s)), word) THEN ParseOk(val, i + Len(word))
    ELSE ParseFail

\* dict assignment: a repeated key keeps its place and takes the new value
DictPut(pairs, k, val) ==
    IF \E n \in 1..Len(pairs) : pairs[n][1] = k
    THEN [n \in 1..Len(pairs) |-> IF pairs[n][1] = k THEN <<k, val>> ELSE pairs[n]]
    ELSE Append(pairs, <<k, val>>)

RECURSIVE ParseValue(_, _)
RECURSIVE ParseElements(_, _, _)
RECURSIVE ParseMembers(_, _, _)

ParseValue(s, i) ==
    IF i > Len(s) THEN ParseFail
    ELSE IF s[i] = "\"" THEN ParseString(s, i)
    ELSE IF s[i] = "{" THEN
        LET j == SkipWs(s, i + 1)
        IN  IF j <= Len(s) /\ s[j] = "}"
            THEN ParseOk([t |-> "dict", v |-> <<>>], j + 1)
            ELSE ParseMembers(s, j, <<>>)
    ELSE IF s[i] = "[" THEN
        LET j == SkipWs(s, i + 1)
        IN  IF j <= Len(s) /\ s[j] = "]"
            THEN ParseOk([t |-> "list", v |-> <<>>], j + 1)
            ELSE ParseElements(s, j, <<>>)
    ELSE IF s[i] = "-" \/ IsDigit(s[i]) THEN ParseInt(s, i)
    ELSE IF s[i] = "t" THEN ParseLiteral(s, i, js_true, [t |-> "bool", v |-> py_True])
    ELSE IF s[i] = "f" THEN ParseLiteral(s, i, js_false, [t |-> "bool", v |-> py_False])
    ELSE IF s[i] = "n" THEN ParseLiteral(s, i, js_null, [t |-> "NoneType", v |-> None])
    ELSE ParseFail

\* i is the start of an array element
ParseElements(s, i, acc) ==
    LET r == ParseValue(s, i)
        j == SkipWs(s, r.next)
    IN  IF ~r.ok \/ j > Len(s) THEN ParseFail
        ELSE IF s[j] = "]" THEN ParseOk([t |-> "list", v |-> Append(acc, r.val)], j + 1)
        ELSE IF s[j] = "," THEN ParseElements(s, SkipWs(s, j + 1), Append(acc, r.val))
        ELSE ParseFail

\* i is the start of an object member, which must be a string key
ParseMembers(s, i, acc) ==
    IF i > Len(s) \/ s[i] # "\"" THEN ParseFail
    ELSE
        LET k == ParseString(s, i)
            c == SkipWs(s, k.next)
        IN  IF ~k.ok \/ c > Len(s) \/ s[c] # ":" THEN ParseFail
            ELSE
                LET r == ParseValue(s, SkipWs(s, c + 1))
                    j == SkipWs(s, r.next)
                IN  IF ~r.ok \/ j > Len(s) THEN ParseFail
                    ELSE IF s[j] = "}"
                    THEN ParseOk([t |-> "dict", v |-> DictPut(acc, k.val.v, r.val)], j + 1)
                    ELSE IF s[j] = ","
                    THEN ParseMembers(s, SkipWs(s, j + 1), DictPut(acc, k.val.v, r.val))
                    ELSE ParseFail

\* json.loads(s): ok is FALSE where it raises JSONDecodeError
json_loads(s) ==
    LET r == ParseValue(s, SkipWs(s, 1))
    IN  IF r.ok /\ SkipWs(s, r.next) = Len(s) + 1 THEN r ELSE ParseFail

dict_has(d, k) == \E n \in 1..Len(d.v) : d.v[n][1] = k

dict_get(d, k) == d.v[CHOOSE n \in 1..Len(d.v) : d.v[n][1] = k][2]

\* repr(x) of a parsed value
RECURSIVE py_repr(_)
py_repr(x) ==
    CASE x.t = "str" -> (<<"'">> \o x.v \o <<"'">>)
      [] x.t = "NoneType" -> py_None
      [] x.t = "list" ->
            (<<"[">> \o Join([n \in 1..Len(x.v) |-> py_repr(x.v[n])], <<",", " ">>)
                   \o <<"]">>)
      [] x.t = "dict" ->
            (<<"{">> \o Join([n \in 1..Len(x.v) |->
                                (<<"'">> \o x.v[n][1] \o <<"'", ":", " ">>)
                                    \o py_repr(x.v[n][2])],
                             <<",", " ">>)
                   \o <<"}">>)
      [] OTHER -> x.v

\* str(x) of a parsed value
py_str(x) == IF x.t = "str" THEN x.v ELSE py_repr(x)

(***************************************************************************)
(* Text constants of the program                                           *)
(***************************************************************************)
s_success ==
    <<"s","u","c","c","e","s","s">>
s_error ==
    <<"e","r","r","o","r">>
s_unknown ==
    <<"u","n","k","n","o","w","n">>
no_reply ==
    <<"n","o","-","r","e","p","l","y","@","e","x","a","m","p","l","e",".","c","o","m">>
tmpl_complaint ==
    <<"W","e","'","r","e"," ","s","o","r","r","y"," ","t","o"," ","h","e","a","r"," ","a","b",
      "o","u","t"," ","t","h","e"," ","i","s","s","u","e","."," ","W","e","'","v","e"," ","s",
      "h","a","r","e","d"," ","y","o","u","r"," ","m","e","s","s","a","g","e"," ","w","i","t",
      "h"," ","o","u","r"," ","t","e","a","m"," ","a","n","d"," ","w","i","l","l"," ","f","o",
      "l","l","o","w"," ","u","p"," ","s","o","o","n",".">>
tmpl_inquiry ==
    <<"T","h","a","n","k","s"," ","f","o","r"," ","r","e","a","c","h","i","n","g"," ","o","u",
      "t","!"," ","W","e","'","l","l"," ","g","e","t"," ","b","a","c","k"," ","t","o"," ","y",
      "o","u"," ","s","h","o","r","t","l","y"," ","w","i","t","h"," ","m","o","r","e"," ","i",
      "n","f","o","r","m","a","t","i","o","n",".">>
tmpl_feedback ==
    <<"W","e"," ","t","r","u","l","y"," ","a","p","p","r","e","c","i","a","t","e"," ","y","o",
      "u","r"," ","k","i","n","d"," ","w","o","r","d","s","."," ","T","h","a","n","k"," ","y",
      "o","u"," ","f","o","r"," ","l","e","t","t","i","n","g"," ","u","s"," ","k","n","o","w",
      "!">>
tmpl_support_request ==
    <<"T","h","a","n","k","s"," ","f","o","r"," ","c","o","n","t","a","c","t","i","n","g"," ",
      "u","s","."," ","O","u","r"," ","t","e","a","m"," ","i","s"," ","l","o","o","k","i","n",
      "g"," ","i","n","t","o"," ","y","o","u","r"," ","i","s","s","u","e"," ","a","n","d"," ",
      "w","i","l","l"," ","f","o","l","l","o","w"," ","u","p"," ","s","h","o","r","t","l","y",
      ".">>
tmpl_other ==
    <<"T","h","a","n","k","s"," ","f","o","r"," ","y","o","u","r"," ","m","e","s","s","a","g",
      "e","."," ","W","e","'","l","l"," ","r","e","v","i","e","w"," ","i","t"," ","a","n","d",
      " ","r","e","s","p","o","n","d"," ","i","f"," ","n","e","e","d","e","d",".">>
fallback_complaint ==
    <<"W","e"," ","a","p","o","l","o","g","i","z","e",","," ","b","u","t"," ","w","e"," ","c",
      "o","u","l","d"," ","n","o","t"," ","p","r","o","c","e","s","s"," ","y","o","u","r"," ",
      "c","o","m","p","l","a","i","n","t"," ","a","t"," ","t","h","i","s"," ","t","i","m","e",
      "."," ","O","u","r"," ","t","e","a","m"," ","h","a","s"," ","b","e","e","n"," ","n","o",
      "t","i","f","i","e","d"," ","a","n","d"," ","w","i","l","l"," ","a","d","d","r","e","s",
      "s"," ","t","h","i","s"," ","i","s","s","u","e"," ","p","r","o","m","p","t","l","y",".">>
fallback_inquiry ==
    <<"T","h","a","n","k"," ","y","o","u"," ","f","o","r"," ","y","o","u","r"," ","i","n","q",
      "u","i","r","y","."," ","W","e","'","r","e"," ","c","u","r","r","e","n","t","l","y"," ",
      "e","x","p","e","r","i","e","n","c","i","n","g"," ","t","e","c","h","n","i","c","a","l",
      " ","d","i","f","f","i","c","u","l","t","i","e","s","."," ","O","u","r"," ","t","e","a",
      "m"," ","w","i","l","l"," ","g","e","t"," ","b","a","c","k"," ","t","o"," ","y","o","u",
      " ","s","h","o","r","t","l","y",".">>
fallback_feedback ==
    <<"T","h","a","n","k"," ","y","o","u"," ","f","o","r"," ","y","o","u","r"," ","f","e","e",
      "d","b","a","c","k","."," ","W","e"," ","a","p","p","r","e","c","i","a","t","e"," ","y",
      "o","u"," ","t","a","k","i","n","g"," ","t","h","e"," ","t","i","m","e"," ","t","o"," ",
      "s","h","a","r","e"," ","y","o","u","r"," ","t","h","o","u","g","h","t","s"," ","w","i",
      "t","h"," ","u","s",".">>
fallback_support_request ==
    <<"T","h","a","n","k"," ","y","o","u"," ","f","o","r"," ","c","o","n","t","a","c","t","i",
      "n","g"," ","o","u","r"," ","s","u","p","p","o","r","t"," ","t","e","a","m","."," ","W",
      "e","'","v","e"," ","c","r","e","a","t","e","d"," ","a"," ","t","i","c","k","e","t"," ",
      "f","o","r"," ","y","o","u","r"," ","i","s","s","u","e"," ","a","n","d"," ","w","i","l",
      "l"," ","r","e","s","p","o","n","d"," ","a","s"," ","s","o","o","n"," ","a","s"," ","p",
      "o","s","s","i","b","l","e",".">>
fallback_other ==
    <<"T","h","a","n","k"," ","y","o","u"," ","f","o","r"," ","y","o","u","r"," ","m","e","s",
      "s","a","g","e","."," ","W","e","'","v","e"," ","r","e","c","e","i","v","e","d"," ","y",
      "o","u","r"," ","e","m","a","i","l"," ","a","n","d"," ","w","i","l","l"," ","r","e","v",
      "i","e","w"," ","i","t"," ","p","r","o","m","p","t","l","y",".">>
subject_complaint ==
    <<"R","e","g","a","r","d","i","n","g"," ","Y","o","u","r"," ","C","o","m","p","l","a","i",
      "n","t">>
subject_standard ==
    <<"R","e","g","a","r","d","i","n","g"," ","Y","o","u","r"," ","S","t","a","n","d","a","r",
      "d"," ","I","n","q","u","i","r","y">>
msg_email ==
    <<"E","m","a","i","l"," ">>
msg_missing_body ==
    <<":"," ","m","i","s","s","i","n","g"," ","o","r"," ","e","m","p","t","y"," ","'","b","o",
      "d","y","'"," ","f","i","e","l","d">>
msg_classification_failed ==
    <<":"," ","c","l","a","s","s","i","f","i","c","a","t","i","o","n"," ","f","a","i","l","e",
      "d">>
msg_invalid_format ==
    <<"I","n","v","a","l","i","d"," ","e","m","a","i","l"," ","f","o","r","m","a","t",":"," ",
      "e","x","p","e","c","t","e","d"," ","d","i","c","t","i","o","n","a","r","y",","," ","g",
      "o","t"," ">>
msg_no_strip ==
    <<"'","N","o","n","e","T","y","p","e","'"," ","o","b","j","e","c","t"," ","h","a","s"," ",
      "n","o"," ","a","t","t","r","i","b","u","t","e"," ","'","s","t","r","i","p","'">>
msg_error_processing ==
    <<"E","r","r","o","r"," ","p","r","o","c","e","s","s","i","n","g"," ">>
msg_colon ==
    <<":"," ">>
msg_sent_at ==
    <<"\n","\n","[","S","e","n","t"," ","a","t"," ">>
msg_close ==
    <<"]">>
msg_urgent_ticket ==
    <<"U","r","g","e","n","t"," ","t","i","c","k","e","t"," ","f","o","r"," ">>
msg_issue ==
    <<" ","i","s","s","u","e">>
msg_no_response ==
    <<"N","o"," ","r","e","s","p","o","n","s","e"," ","g","e","n","e","r","a","t","e","d",".">>
type_str ==
    <<"s","t","r">>
type_NoneType ==
    <<"N","o","n","e","T","y","p","e">>

(***************************************************************************)
(* The model backend.  One call of client.chat.completions.create ends in  *)
(* one of: an exception, a response without choices, a message whose       *)
(* content is None, or a message with text.                                *)
(***************************************************************************)
LLMRaise(e) == [kind |-> "raise", exc |-> e, content |-> None]

LLMNoChoices == [kind |-> "no_choices", exc |-> "", content |-> None]

LLMContent(c) == [kind |-> "content", exc |-> "", content |-> c]

BackendErrors ==
    {"RateLimitError", "APIConnectionError", "AuthenticationError", "APITimeoutError",
     "Exception"}

\* not x, for x a str or None
falsy(x) == x = None \/ x = <<>>

\* email.get(key) and email.get(key, default)
dict_get_or(email, key, default) == IF email[key] = Absent THEN default ELSE email[key]

(***************************************************************************)
(* processFunc.py                                                          *)
(***************************************************************************)
\* _is_email_valid looking at the body alone
_is_email_valid_bodyonly(email) == ~falsy(dict_get_or(email, "body", None))

_is_email_valid(email) ==
    ~(falsy(dict_get_or(email, "subject", None)) \/ falsy(dict_get_or(email, "body", None)))

_get_fallback_template(classification) ==
    CASE classification = complaint -> tmpl_complaint
      [] classification = inquiry -> tmpl_inquiry
      [] classification = feedback -> tmpl_feedback
      [] classification = support_request -> tmpl_support_request
      [] OTHER -> tmpl_other

\* lines 141-166: the message handle_openai_error logs for an exception, by
\* the kind of failure it names
handle_openai_error(e) ==
    CASE e = "RateLimitError" -> "rate_limited"
      [] e = "APIConnectionError" -> "connection_error"
      [] e = "AuthenticationError" -> "auth_error"
      [] e = "APITimeoutError" -> "timeout"
      [] OTHER -> "unknown"

\* the exception that leaves _call_llm for a backend outcome: none, the except
\* of lines 132-134 catches every Exception, logs it and returns None
_call_llm_exception(out) == None

\* the value _call_llm returns for a backend outcome; None where it logs and gives up
_call_llm(out) ==
    IF out.kind = "content" /\ out.content # None THEN strip(out.content) ELSE None

(***************************************************************************)
(* emailProcessor.py                                                       *)
(***************************************************************************)
valid_classification == {complaint, inquiry, feedback, support_request, other}

classification_case_mapping(c) ==
    CASE c = complaint -> complaint
      [] c = inquiry -> inquiry
      [] c = feedback -> feedback
      [] c = support_request -> support_request
      [] c = other -> other

ProbedKeys == <<key_classification, key_Classification, key_category, key_Category>>

\* the loop over the probed keys: the value of the first key present, else None
ExtractClassification(result) ==
    IF \E n \in 1..Len(ProbedKeys) : dict_has(result, ProbedKeys[n])
    THEN dict_get(result,
                  ProbedKeys[CHOOSE n \in 1..Len(ProbedKeys) :
                                /\ dict_has(result, ProbedKeys[n])
                                /\ \A m \in 1..(n - 1) : ~dict_has(result, ProbedKeys[m])])
    ELSE [t |-> "NoneType", v |-> None]

\* NormalizeClassification returning the model's own spelling of a valid category
NormalizeClassification_uncased(classification) ==
    LET text == IF classification.t = "str" THEN classification.v ELSE py_str(classification)
        original_classification == strip(text)
        classification_lower == lower(original_classification)
    IN  IF classification_lower \in valid_classification
        THEN original_classification
        ELSE None

\* NormalizeClassification defaulting an unknown category to "other"
NormalizeClassification_other(classification) ==
    LET text == IF classification.t = "str" THEN classification.v ELSE py_str(classification)
        original_classification == strip(text)
        classification_lower == lower(original_classification)
    IN  IF classification_lower \in valid_classification
        THEN classification_case_mapping(classification_lower)
        ELSE other

\* lines 109-129: coerce to text, trim, fold case, look up
NormalizeClassification(classification) ==
    LET text == IF classification.t = "str" THEN classification.v ELSE py_str(classification)
        original_classification == strip(text)
        classification_lower == lower(original_classification)
    IN  IF classification_lower \in valid_classification
        THEN classification_case_mapping(classification_lower)
        ELSE None

\* lines 69-74: trim, and strip a surrounding fence
CleanContent(raw) ==
    LET content == strip(raw)
    IN  IF startswith(content, Fence) /\ endswith(content, Fence)
        THEN strip(Slice3(content))
        ELSE content

\* lines 63-129: the value classify_email returns for the text _call_llm returned
ParseClassification(content) ==
    IF falsy(content) THEN None
    ELSE
        LET parsed == json_loads(CleanContent(content))
        IN  IF ~parsed.ok THEN None
            ELSE IF parsed.val.t # "dict" THEN None
            ELSE
                LET classification == ExtractClassification(parsed.val)
                IN  IF classification.t = "NoneType" THEN None
                    ELSE NormalizeClassification(classification)

\* whether classify_email / generate_response reach their model call
calls_llm(email) == _is_email_valid(email)

\* _call_llm catches every exception of the backend itself, so the except of
\* lines 131-134 (and of lines 166-169 below) is not entered for a backend failure
classify_email(email, out) ==
    IF ~_is_email_valid(email) THEN None ELSE ParseClassification(_call_llm(out))

\* lines 140-169.  Both log lines inside the try (158-160 and 163) read
\* email['id']: for an email without that key they raise KeyError, and the
\* except of line 166 returns the fallback whatever the model returned
generate_response(email, classification, out) ==
    IF ~_is_email_valid(email) THEN None
    ELSE
        LET fallback == _get_fallback_template(classification)
            content == _call_llm(out)
        IN  IF email.id = Absent THEN fallback
            ELSE IF falsy(content) THEN fallback
            ELSE content

\* raw texts of the classification call
\* the answer format the prompt asks for
raw01 ==
    <<"{","\"","c","a","t","e","g","o","r","y","\"",":"," ","\"","c","o","m","p","l","a","i","n",
      "t","\"","}">>
\* padded with whitespace
raw02 ==
    <<" ","{","\"","c","l","a","s","s","i","f","i","c","a","t","i","o","n","\"",":"," ","\"","i",
      "n","q","u","i","r","y","\"","}"," ","\n">>
\* fenced, capitalised key, upper-case value
raw03 ==
    <<BT,BT,BT,"{","\"","C","a","t","e","g","o","r","y","\"",":"," ","\"","F","E","E","D","B",
      "A","C","K","\"","}",BT,BT,BT>>
\* value padded and mixed case
raw04 ==
    <<"{","\"","C","l","a","s","s","i","f","i","c","a","t","i","o","n","\"",":"," ","\""," ","S",
      "u","p","p","o","r","t","_","R","e","q","u","e","s","t"," ","\"","}">>
\* the model names other
raw05 ==
    <<"{","\"","c","a","t","e","g","o","r","y","\"",":"," ","\"","o","t","h","e","r","\"","}">>
\* a category outside the closed set
raw06 ==
    <<"{","\"","c","a","t","e","g","o","r","y","\"",":"," ","\"","s","p","a","m","\"","}">>
\* a key spelling the probe list does not hold
raw07 ==
    <<"{","\"","C","A","T","E","G","O","R","Y","\"",":"," ","\"","c","o","m","p","l","a","i","n",
      "t","\"","}">>
\* an unrelated key
raw08 ==
    <<"{","\"","l","a","b","e","l","\"",":"," ","\"","c","o","m","p","l","a","i","n","t","\"",
      "}">>
\* a number as value
raw09 ==
    <<"{","\"","c","a","t","e","g","o","r","y","\"",":"," ","5","}">>
\* null as value
raw10 ==
    <<"{","\"","c","a","t","e","g","o","r","y","\"",":"," ","n","u","l","l","}">>
\* a boolean as value
raw11 ==
    <<"{","\"","c","a","t","e","g","o","r","y","\"",":"," ","t","r","u","e","}">>
\* a list as value
raw12 ==
    <<"{","\"","c","a","t","e","g","o","r","y","\"",":"," ","[","\"","c","o","m","p","l","a","i",
      "n","t","\"","]","}">>
\* JSON, but a list
raw13 ==
    <<"[","\"","c","o","m","p","l","a","i","n","t","\"","]">>
\* JSON, but a bare string
raw14 ==
    <<"\"","c","o","m","p","l","a","i","n","t","\"">>
\* not JSON
raw15 ==
    <<"c","o","m","p","l","a","i","n","t">>
\* empty text
raw16 ==
    <<>>
\* whitespace only
raw17 ==
    <<" "," ","\n">>
\* fence with a language tag
raw18 ==
    <<BT,BT,BT,"j","s","o","n","\n","{","\"","c","a","t","e","g","o","r","y","\"",":"," ","\"",
      "c","o","m","p","l","a","i","n","t","\"","}","\n",BT,BT,BT>>
\* three backticks only
raw19 ==
    <<BT,BT,BT>>
\* first probed key present with null
raw20 ==
    <<"{","\"","c","l","a","s","s","i","f","i","c","a","t","i","o","n","\"",":"," ","n","u","l",
      "l",","," ","\"","c","a","t","e","g","o","r","y","\"",":"," ","\"","c","o","m","p","l","a",
      "i","n","t","\"","}">>
\* two accepted keys
raw21 ==
    <<"{","\"","c","a","t","e","g","o","r","y","\"",":"," ","\"","c","o","m","p","l","a","i","n",
      "t","\"",","," ","\"","c","l","a","s","s","i","f","i","c","a","t","i","o","n","\"",":"," ",
      "\"","f","e","e","d","b","a","c","k","\"","}">>
\* a repeated key
raw22 ==
    <<"{","\"","c","a","t","e","g","o","r","y","\"",":"," ","\"","i","n","q","u","i","r","y",
      "\"",","," ","\"","c","a","t","e","g","o","r","y","\"",":"," ","\"","f","e","e","d","b",
      "a","c","k","\"","}">>
\* truncated object
raw23 ==
    <<"{","\"","c","a","t","e","g","o","r","y","\"",":"," ","\"","c","o","m","p","l","a","i","n",
      "t","\"">>
\* empty object
raw24 ==
    <<"{","}">>
\* fenced, with a key in capitals
raw25 ==
    <<BT,BT,BT,"{","\"","C","A","T","E","G","O","R","Y","\"",":"," ","\"","c","o","m","p","l",
      "a","i","n","t","\"","}",BT,BT,BT>>
RawTexts ==
    <<raw01, raw02, raw03, raw04, raw05, raw06, raw07, raw08, raw09, raw10, raw11, raw12,
      raw13, raw14, raw15, raw16, raw17, raw18, raw19, raw20, raw21, raw22, raw23, raw24, raw25>>

(***************************************************************************)
(* Inputs and collaborator outcomes                                        *)
(***************************************************************************)
\* sample field values of the input emails
id_test001 ==
    <<"t","e","s","t","0","0","1">>
id_abc ==
    <<"a","b","c">>
\* a value rng.integers(0, 1_000_000) can return, as text
id_generated ==
    <<"4","2","4","2","4","2">>
from_test ==
    <<"t","e","s","t","@","e","x","a","m","p","l","e",".","c","o","m">>
subject_text ==
    <<"N","e","e","d"," ","r","e","f","u","n","d"," ","n","o","w","!">>
subject_blank ==
    <<" "," "," ">>
body_text ==
    <<"I"," ","w","a","n","t"," ","a"," ","r","e","f","u","n","d","."," ","T","h","i","s"," ",
      "i","s"," ","u","n","a","c","c","e","p","t","a","b","l","e",".">>
body_blank ==
    <<" ","\n"," ">>
timestamp_text ==
    <<"2","0","2","5","-","0","3","-","1","5","T","1","0",":","0","0",":","0","0","Z">>
not_a_dict ==
    <<"n","o","t"," ","a","n"," ","e","m","a","i","l">>
\* sample replies of the generation call
gen_text ==
    <<" "," ","W","e"," ","a","p","o","l","o","g","i","z","e"," ","f","o","r"," ","t","h","e",
      " ","i","n","c","o","n","v","e","n","i","e","n","c","e",".",".",".","\n">>
gen_blank ==
    <<" ","\n">>
\* message of the exception the log file raises
exc_permission ==
    <<"[","E","r","r","n","o"," ","1","3","]"," ","P","e","r","m","i","s","s","i","o","n"," ",
      "d","e","n","i","e","d",":"," ","'","s","e","n","t","_","r","e","s","p","o","n","s","e",
      "s","_","l","o","g",".","j","s","o","n","'">>
missing_or_empty_body ==
    <<"m","i","s","s","i","n","g"," ","o","r"," ","e","m","p","t","y"," ","'","b","o","d","y",
      "'">>
classification_failed ==
    <<"c","l","a","s","s","i","f","i","c","a","t","i","o","n"," ","f","a","i","l","e","d">>

type_dict == <<"d","i","c","t">>

iso_prefix == <<"2","0","2","5","-","0","3","-","1","5","T","1","0",":","0","0",":">>

Email(id, from, subject, body) ==
    [type |-> type_dict, value |-> <<>>, id |-> id, from |-> from, subject |-> subject,
     body |-> body, timestamp |-> timestamp_text]

\* an input that is not a dict: its type name and its str()
NonDict(type, text) ==
    [type |-> type, value |-> text, id |-> Absent, from |-> Absent, subject |-> Absent,
     body |-> Absent, timestamp |-> Absent]

Inputs ==
    { Email(id_test001, from_test, subject_text, body_text),
      Email(Absent, from_test, subject_text, body_text),
      Email(None, from_test, subject_text, body_text),
      Email(id_abc, from_test, subject_text, body_text),
      Email(id_test001, Absent, subject_text, body_text),
      Email(id_test001, from_test, subject_text, Absent),
      Email(id_test001, from_test, subject_text, <<>>),
      Email(id_test001, from_test, subject_text, body_blank),
      Email(id_abc, from_test, subject_text, body_blank),
      Email(id_test001, from_test, subject_text, None),
      Email(id_test001, from_test, Absent, body_text),
      Email(id_test001, from_test, <<>>, body_text),
      Email(id_test001, from_test, subject_blank, body_text),
      Email(Absent, Absent, Absent, Absent),
      NonDict(type_str, not_a_dict),
      NonDict(type_NoneType, py_None) }

\* values _generate_numeric_id can return
GeneratedIds == {id_generated}

ClassifyOutcomes ==
    {LLMContent(RawTexts[n]) : n \in 1..Len(RawTexts)}
        \cup {LLMContent(None), LLMNoChoices} \cup {LLMRaise(e) : e \in BackendErrors}

GenerateOutcomes ==
    {LLMContent(gen_text), LLMContent(gen_blank), LLMContent(<<>>), LLMContent(None),
     LLMNoChoices} \cup {LLMRaise(e) : e \in BackendErrors}

SendOutcomes == {"sent", "raise"}

\* create_ticket: HTTP 201, another status, or an exception of requests.post
TicketOutcomes == {"created", "rejected", "exception"}

\* the log file: read, appended and rewritten, or an exception with its message
LogOutcomes == {<<"ok">>, exc_permission}

\* number of process_email calls of a behaviour
MaxRuns == 1

(***************************************************************************)
(* State                                                                   *)
(***************************************************************************)
VARIABLES
    pc,             \* where process_email stands: idle, classify1, classify2,
                    \* generate, send, extra, log, log_error, done (returned),
                    \* raised (an exception left process_email);
                    \* generate_response, generate_returned where
                    \* generate_response is called on its own
    supplied,       \* the argument of the current process_email call, as passed
    email,          \* the same record as the code sees it (id backfilled)
    classification, \* process_email's local
    response,       \* _generic_handler's local
    caught,         \* str(e) of the exception _generic_handler caught
    result,         \* the dict process_email returned
    store,          \* contents of sent_responses_log.json
    clock,          \* ticks of datetime.now
    runs,           \* process_email calls so far
    store0,         \* the log file as it was when the current call began
    raw,            \* what the backend answered to the last classify_email call
                    \* (to the generation call, where generate_response is
                    \* called on its own)
    events,         \* collaborator calls of the current run, in order
    writers         \* the log_sent_response calls in progress side by side

vars == <<pc, supplied, email, classification, response, caught, result, store, clock,
          runs, store0, raw, events, writers>>

\* no classification call has reached the backend
NoRaw == [kind |-> "none", exc |-> "", content |-> None]

True == <<"bool", "True">>

False == <<"bool", "False">>

NoResult ==
    [email_id |-> None, original_email |-> None, classification |-> None,
     response_sent |-> None, status |-> None, error_message |-> Absent]

Event(op, a, b, c, d, outcome) ==
    [op |-> op, a |-> a, b |-> b, c |-> c, d |-> d, outcome |-> outcome]

\* the events of one _call_llm: none when the validity check returns before it
LLMEvents(em) ==
    IF calls_llm(em) THEN <<Event("llm", <<>>, <<>>, <<>>, <<>>, "call")>> ELSE <<>>

\* the except of classify_email (emailProcessor.py lines 131-134) and of
\* generate_response (lines 166-169): handle_openai_error is called with the
\* exception that came out of _call_llm
ErrorEvents(em, out) ==
    IF calls_llm(em) /\ _call_llm_exception(out) # None
    THEN <<Event("handle_openai_error", _call_llm_exception(out),
                 handle_openai_error(_call_llm_exception(out)), <<>>, <<>>, "return")>>
    ELSE <<>>

(***************************************************************************)
(* emailAutomationSystem.py                                                *)
(***************************************************************************)
\* __init__, lines 25-31, and the handlers of lines 171-224: what each passes
\* to _generic_handler
_handle_complaint ==
    [classification |-> complaint, fallback_response |-> fallback_complaint,
     send_fn |-> "_send_complaint_response", extra_action |-> "_create_urgent_ticket"]

_handle_inquiry ==
    [classification |-> inquiry, fallback_response |-> fallback_inquiry,
     send_fn |-> "_send_standard_response", extra_action |-> "None"]

_handle_feedback ==
    [classification |-> feedback, fallback_response |-> fallback_feedback,
     send_fn |-> "_send_standard_response", extra_action |-> "_log_customer_feedback"]

_handle_support_request ==
    [classification |-> support_request, fallback_response |-> fallback_support_request,
     send_fn |-> "_send_standard_response", extra_action |-> "_create_support_ticket"]

_handle_other ==
    [classification |-> other, fallback_response |-> fallback_other,
     send_fn |-> "_send_standard_response", extra_action |-> "None"]

\* the table with the inquiry entry bound to the support request handler
response_handlers_get_misbound(c) ==
    CASE c = complaint -> _handle_complaint
      [] c = inquiry -> _handle_support_request
      [] c = feedback -> _handle_feedback
      [] c = support_request -> _handle_support_request
      [] c = other -> _handle_other
      [] OTHER -> _handle_other

\* self.response_handlers.get(classification, self._handle_other)
response_handlers_get(c) ==
    CASE c = complaint -> _handle_complaint
      [] c = inquiry -> _handle_inquiry
      [] c = feedback -> _handle_feedback
      [] c = support_request -> _handle_support_request
      [] c = other -> _handle_other
      [] OTHER -> _handle_other

\* NormalizeId keeping every string id, digit or none
NormalizeId_anystring(id, generated) ==
    IF ~isinstance_str(id) THEN generated ELSE id

\* NormalizeId drawing a fresh id for every email
NormalizeId_fresh(id, generated) == generated

\* NormalizeId keeping only an id made of digits alone
NormalizeId_numeric(id, generated) ==
    IF ~isinstance_str(id) \/ id = <<>> \/ (\E n \in 1..Len(id) : ~IsDigit(id[n]))
    THEN generated
    ELSE id

\* lines 59-62: the id the record carries after pipeline entry
NormalizeId(id, generated) ==
    IF ~isinstance_str(id) \/ ~any_isdigit(id) THEN generated ELSE id

\* BodyCheck without the strip()
BodyCheck_unstripped(em) ==
    IF em.body = Absent THEN "ValueError"
    ELSE IF em.body = None THEN "AttributeError"
    ELSE IF em.body = <<>> THEN "ValueError"
    ELSE "ok"

\* line 69: the exception the body check raises, "ok" when it passes
BodyCheck(em) ==
    IF em.body = Absent THEN "ValueError"
    ELSE IF em.body = None THEN "AttributeError"
    ELSE IF strip(em.body) = <<>> THEN "ValueError"
    ELSE "ok"

\* InvalidFormatResult reading the id off the input
InvalidFormatResult_noid(e) ==
    [email_id |-> None, original_email |-> e.value, classification |-> None,
     response_sent |-> None, status |-> s_error,
     error_message |-> msg_invalid_format \o e.type]

\* lines 46-55
InvalidFormatResult(e) ==
    [email_id |-> s_unknown, original_email |-> e.value, classification |-> None,
     response_sent |-> None, status |-> s_error,
     error_message |-> msg_invalid_format \o e.type]

\* lines 97-106
ExceptResult(em, message) ==
    [email_id |-> em.id, original_email |-> em, classification |-> None,
     response_sent |-> None, status |-> s_error, error_message |-> message]

\* ReturnResult with the classification dropped from an error result
ReturnResult_unclassified(em, c, ret) ==
    [email_id |-> em.id, original_email |-> em,
     classification |-> IF ret[2] = s_error THEN None ELSE c,
     response_sent |-> ret[1], status |-> ret[2], error_message |-> Absent]

\* lines 84-92: ret is the pair the handler returned
ReturnResult(em, c, ret) ==
    [email_id |-> em.id, original_email |-> em, classification |-> c,
     response_sent |-> ret[1], status |-> ret[2], error_message |-> Absent]

\* SendFailedReturn with the reply flagged as sent
SendFailedReturn_sent == <<True, s_error>>

\* line 150, line 158, line 165
SendFailedReturn == <<False, s_error>>

\* SuccessReturn with the reply flagged as not sent
SuccessReturn_unsent == <<False, s_success>>

SuccessReturn == <<True, s_success>>

ErrorReturn == <<False, s_error>>

\* the subject line of _send_complaint_response / _send_standard_response
SendSubject(send_fn) ==
    IF send_fn = "_send_complaint_response" THEN subject_complaint ELSE subject_standard

\* the create_ticket call of the handler's extra action
TicketEvent(h, em, outcome) ==
    LET id == dict_get_or(em, "id", s_unknown)
        to == dict_get_or(em, "from", no_reply)
    IN  IF h.extra_action = "_create_urgent_ticket"
        THEN Event("create_ticket", id, msg_urgent_ticket \o complaint \o msg_issue,
                   complaint, to, outcome)
        ELSE IF h.extra_action = "_create_support_ticket"
        THEN Event("create_ticket", id, dict_get_or(em, "body", <<>>), support_request,
                   to, outcome)
        ELSE Event("create_ticket", id, dict_get_or(em, "body", <<>>), feedback, to, outcome)

(***************************************************************************)
(* email_automation_service.py                                             *)
(***************************************************************************)
RECURSIVE Decimal(_)
Decimal(n) ==
    LET d == <<"0","1","2","3","4","5","6","7","8","9">>[(n % 10) + 1]
    IN  IF n < 10 THEN <<d>> ELSE Append(Decimal(n \div 10), d)

\* datetime.now(timezone.utc).isoformat().replace("+00:00", "Z") at tick n
Timestamp(n) ==
    iso_prefix \o (IF n < 10 THEN <<"0">> ELSE <<>>) \o Decimal(n) \o <<"Z">>

\* lines 87-110: the entry log_response hands to log_sent_response
LogEntry(em, resp, c, status, tick) ==
    LET text == IF resp = None THEN msg_no_response ELSE resp
        timestamp == Timestamp(tick)
    IN  [email_id |-> dict_get_or(em, "id", s_unknown),
         recipient |-> dict_get_or(em, "from", s_unknown),
         classification |-> c,
         timestamp |-> timestamp,
         response |-> text \o msg_sent_at \o timestamp \o msg_close,
         status |-> status]

\* log_sent_response writing the new entry alone, the file not read first
log_sent_response_overwrite(existing, entry) == <<entry>>

\* lines 62-73: the file after a call that did not raise
log_sent_response(existing, entry) == Append(existing, entry)

(***************************************************************************)
(* process_email, one action per stretch of code between collaborator      *)
(* calls                                                                   *)
(***************************************************************************)
\* the log file outlives the process: entries earlier processes may have left
PriorEntries ==
    <<LogEntry(Email(id_test001, from_test, subject_text, body_text), strip(gen_text),
               complaint, s_success, 1),
      LogEntry(Email(id_generated, from_test, subject_text, body_text),
               msg_error_processing \o inquiry \o msg_colon \o exc_permission,
               inquiry, s_error, 2)>>

InitialStores == {<<>>, PriorEntries}

\* AfterClassify without the None check
AfterClassify_unchecked(c) == "generate"

\* lines 80-83: raise when the classification is None, else dispatch
AfterClassify(c) == IF c = None THEN "done" ELSE "generate"

Init ==
    /\ pc = "idle"
    /\ supplied = NonDict(type_NoneType, py_None)
    /\ email = NonDict(type_NoneType, py_None)
    /\ classification = None
    /\ response = None
    /\ caught = None
    /\ result = NoResult
    /\ store \in InitialStores
    /\ clock = Len(store)
    /\ runs = 0
    /\ store0 = store
    /\ raw = NoRaw
    /\ events = <<>>
    /\ writers = <<>>

\* AfterSend with the extra action not gated on the send
AfterSend_ungated(h, outcome) ==
    IF h.extra_action # "None" THEN "extra"
    ELSE IF outcome = "raise" THEN "done"
    ELSE "log"

\* AfterSend with the exception of the send swallowed: the handler goes on to
\* the success log
AfterSend_swallowed(h, outcome) ==
    IF outcome # "raise" /\ h.extra_action # "None" THEN "extra" ELSE "log"

\* where _generic_handler goes after the send: line 150 returns, line 154
\* runs the extra action if the handler has one, line 157 logs
AfterSend(h, outcome) ==
    IF outcome = "raise" THEN "done"
    ELSE IF h.extra_action # "None" THEN "extra"
    ELSE "log"

\* lines 46-73: the type check, the id backfill and the body check
Enter(e, generated) ==
    /\ pc \in {"idle", "done"}
    /\ runs' = runs + 1
    /\ supplied' = e
    /\ classification' = None
    /\ response' = None
    /\ caught' = None
    /\ events' = <<>>
    /\ store0' = store
    /\ raw' = NoRaw
    /\ UNCHANGED <<store, clock, writers>>
    /\ IF e.type # type_dict
       THEN /\ email' = e
            /\ result' = InvalidFormatResult(e)
            /\ pc' = "done"
       ELSE LET em == [e EXCEPT !.id = NormalizeId(e.id, generated)]
                check == BodyCheck(em)
            IN  /\ email' = em
                /\ IF check = "ValueError"
                   THEN /\ result' = ExceptResult(em, msg_email \o em.id \o msg_missing_body)
                        /\ pc' = "done"
                   ELSE IF check = "AttributeError"
                   THEN /\ result' = ExceptResult(em, msg_no_strip)
                        /\ pc' = "done"
                   ELSE /\ result' = NoResult
                        /\ pc' = "classify1"

\* a call of process_email
Submit(e, generated) == runs < MaxRuns /\ Enter(e, generated)

\* line 75: the first classify_email call
ClassifyFirst(out) ==
    /\ pc = "classify1"
    /\ classification' = classify_email(email, out)
    /\ raw' = IF calls_llm(email) THEN out ELSE NoRaw
    /\ events' = events \o LLMEvents(email) \o ErrorEvents(email, out)
                    \o <<Event("classify_email", <<>>, <<>>, <<>>, <<>>, "return")>>
    /\ pc' = "classify2"
    /\ UNCHANGED <<supplied, email, response, caught, result, store, clock, runs, store0, writers>>

\* lines 76-83: the second classify_email call, the None check and the dispatch
ClassifySecond(out) ==
    /\ pc = "classify2"
    /\ classification' = classify_email(email, out)
    /\ raw' = IF calls_llm(email) THEN out ELSE NoRaw
    /\ events' = events \o LLMEvents(email) \o ErrorEvents(email, out)
                    \o <<Event("classify_email", <<>>, <<>>, <<>>, <<>>, "return")>>
    /\ pc' = AfterClassify(classification')
    /\ result' = IF pc' = "done"
                 THEN ExceptResult(email, msg_email \o email.id \o msg_classification_failed)
                 ELSE NoResult
    /\ UNCHANGED <<supplied, email, response, caught, store, clock, runs, store0, writers>>

\* line 142: generate_response(email, classification) or fallback_response
Generate(out) ==
    /\ pc = "generate"
    /\ LET h == response_handlers_get(classification)
           generated == generate_response(email, h.classification, out)
       IN  /\ response' = IF falsy(generated) THEN h.fallback_response ELSE generated
           /\ events' = events \o LLMEvents(email) \o ErrorEvents(email, out)
                           \o <<Event("generate_response", h.classification, <<>>, <<>>,
                                      <<>>, "return")>>
    /\ pc' = "send"
    /\ UNCHANGED <<supplied, email, classification, caught, result, store, clock, runs,
                   store0, raw, writers>>

\* lines 144-150: send_fn, and the return when it raises
Send(outcome) ==
    /\ pc = "send"
    /\ LET h == response_handlers_get(classification)
       IN  /\ events' = Append(events,
                               Event("send_email", dict_get_or(email, "id", s_unknown),
                                     dict_get_or(email, "from", no_reply),
                                     SendSubject(h.send_fn), response, outcome))
           /\ pc' = AfterSend(h, outcome)
           /\ result' = IF pc' = "done"
                        THEN ReturnResult(email, classification, SendFailedReturn)
                        ELSE NoResult
    /\ UNCHANGED <<supplied, email, classification, response, caught, store, clock, runs,
                   store0, raw, writers>>

\* AfterTicket were create_ticket to let the exception of requests.post out:
\* the handler's except of line 162 is entered
AfterTicket_raising(outcome) == IF outcome = "exception" THEN "log_error" ELSE "log"

\* AfterTicket with the ticket asked for again after an exception
AfterTicket_again(outcome) == IF outcome = "exception" THEN "extra" ELSE "log"

\* create_ticket (email_automation_service.py lines 143-159) logs a refusal
\* and catches an exception: the handler goes on to line 157 either way
AfterTicket(outcome) == "log"

\* lines 154-155: the extra action; create_ticket catches its own failures
ExtraAction(outcome) ==
    /\ pc = "extra"
    /\ events' = Append(events,
                        TicketEvent(response_handlers_get(classification), email, outcome))
    /\ pc' = AfterTicket(outcome)
    /\ UNCHANGED <<supplied, email, classification, response, caught, result, store, clock,
                   runs, store0, raw, writers>>

\* lines 157-158: log_response(..., "success"); an exception goes to line 162
LogSuccess(outcome) ==
    /\ pc = "log"
    /\ clock' = clock + 1
    /\ LET h == response_handlers_get(classification)
           entry == LogEntry(email, response, h.classification, s_success, clock')
       IN  IF outcome = <<"ok">>
           THEN /\ store' = log_sent_response(store, entry)
                /\ events' = Append(events, Event("log_response", entry.email_id,
                                                  entry.classification, s_success, <<>>,
                                                  "ok"))
                /\ result' = ReturnResult(email, classification, SuccessReturn)
                /\ caught' = caught
                /\ pc' = "done"
           ELSE /\ store' = store
                /\ events' = Append(events, Event("log_response", entry.email_id,
                                                  entry.classification, s_success, <<>>,
                                                  "raise"))
                /\ result' = NoResult
                /\ caught' = outcome
                /\ pc' = "log_error"
    /\ UNCHANGED <<supplied, email, classification, response, runs, store0, raw, writers>>

\* HandlerRaises were the try of line 68 to end before the handler call: the
\* exception leaves process_email and no result is returned
HandlerRaises_uncaught(em, message) == [pc |-> "raised", result |-> NoResult]

\* an exception leaving the handler called at line 84 is caught at line 97:
\* process_email returns the error result
HandlerRaises(em, message) == [pc |-> "done", result |-> ExceptResult(em, message)]

\* lines 162-165: log_response(..., "error"); an exception leaves the handler
\* and is caught at line 97
LogError(outcome) ==
    /\ pc = "log_error"
    /\ clock' = clock + 1
    /\ LET h == response_handlers_get(classification)
           text == msg_error_processing \o h.classification \o msg_colon \o caught
           entry == LogEntry(email, text, h.classification, s_error, clock')
       IN  IF outcome = <<"ok">>
           THEN /\ store' = log_sent_response(store, entry)
                /\ events' = Append(events, Event("log_response", entry.email_id,
                                                  entry.classification, s_error, <<>>,
                                                  "ok"))
                /\ result' = ReturnResult(email, classification, ErrorReturn)
                /\ pc' = "done"
           ELSE /\ store' = store
                /\ events' = Append(events, Event("log_response", entry.email_id,
                                                  entry.classification, s_error, <<>>,
                                                  "raise"))
                /\ result' = HandlerRaises(email, outcome).result
                /\ pc' = HandlerRaises(email, outcome).pc
    /\ UNCHANGED <<supplied, email, classification, response, caught, runs, store0, raw, writers>>

Next ==
    \/ \E e \in Inputs, generated \in GeneratedIds : Submit(e, generated)
    \/ \E out \in ClassifyOutcomes : ClassifyFirst(out)
    \/ \E out \in ClassifyOutcomes : ClassifySecond(out)
    \/ \E out \in GenerateOutcomes : Generate(out)
    \/ \E outcome \in SendOutcomes : Send(outcome)
    \/ \E outcome \in TicketOutcomes : ExtraAction(outcome)
    \/ \E outcome \in LogOutcomes : LogSuccess(outcome)
    \/ \E outcome \in LogOutcomes : LogError(outcome)

Spec == Init /\ [][Next]_vars

(***************************************************************************)
(* A batch: process_email called for one email after another, the same     *)
(* record possibly handed in again                                         *)
(***************************************************************************)
\* number of process_email calls of a batch
MaxBatch == 2

BatchInputs ==
    { Email(id_test001, from_test, subject_text, body_text),
      Email(id_abc, from_test, subject_text, body_text),
      Email(Absent, from_test, subject_text, Absent),
      NonDict(type_str, not_a_dict) }

\* values _generate_numeric_id can return, one digit and six
BatchGeneratedIds == {<<"7">>, id_generated}

BatchClassifyOutcomes ==
    {LLMContent(raw01), LLMContent(raw05), LLMContent(raw06), LLMRaise("APITimeoutError")}

BatchGenerateOutcomes == {LLMContent(gen_text), LLMRaise("RateLimitError")}

BatchTicketOutcomes == {"created", "exception"}

\* a call of process_email for the next email of the batch
BatchSubmit(e, generated) == runs < MaxBatch /\ Enter(e, generated)

\* a call of process_email for the record the previous call was given: the
\* caller's dict, with the id line 62 may have stored on it
Resubmit(generated) ==
    /\ pc = "done"
    /\ email.type = type_dict
    /\ runs < MaxBatch
    /\ Enter(email, generated)

\* the steps of a call under way
RunStep ==
    \/ \E out \in BatchClassifyOutcomes : ClassifyFirst(out)
    \/ \E out \in BatchClassifyOutcomes : ClassifySecond(out)
    \/ \E out \in BatchGenerateOutcomes : Generate(out)
    \/ \E outcome \in SendOutcomes : Send(outcome)
    \/ \E outcome \in BatchTicketOutcomes : ExtraAction(outcome)
    \/ \E outcome \in LogOutcomes : LogSuccess(outcome)
    \/ \E outcome \in LogOutcomes : LogError(outcome)

NextBatch ==
    \/ \E e \in BatchInputs, generated \in BatchGeneratedIds : BatchSubmit(e, generated)
    \/ \E generated \in BatchGeneratedIds : Resubmit(generated)
    \/ RunStep

SpecBatch == Init /\ [][NextBatch]_vars

(***************************************************************************)
(* generate_response called on its own                                     *)
(***************************************************************************)
\* a category outside the five
spam ==
    <<"s","p","a","m">>

GenerateEmails == {e \in Inputs : e.type = type_dict}

GenerateCategories == valid_classification \cup {spam}

InitGen ==
    /\ pc = "generate_response"
    /\ email \in GenerateEmails
    /\ supplied = email
    /\ classification \in GenerateCategories
    /\ raw \in GenerateOutcomes
    /\ response = None
    /\ caught = None
    /\ result = NoResult
    /\ store = <<>>
    /\ clock = 0
    /\ runs = 0
    /\ store0 = <<>>
    /\ events = <<>>
    /\ writers = <<>>

\* the call generate_response(email, classification), the backend answering raw
GenerateResponse ==
    /\ pc = "generate_response"
    /\ response' = generate_response(email, classification, raw)
    /\ pc' = "generate_returned"
    /\ UNCHANGED <<supplied, email, classification, caught, result, store, clock, runs,
                   store0, raw, events, writers>>

NextGen == GenerateResponse

SpecGen == InitGen /\ [][NextGen]_vars

(***************************************************************************)
(* log_sent_response called by several tasks side by side, one task per    *)
(* email.  The function takes no lock: between its read (lines 64-67) and   *)
(* its write (lines 69-72) the other tasks run.  The write itself, the      *)
(* truncating open of line 71 and the dump of line 72, is taken as one      *)
(* step.                                                                    *)
(***************************************************************************)
\* number of tasks
MaxWriters == 2

\* the entries the tasks hand to log_sent_response
WriterEntries ==
    { LogEntry(Email(id_test001, from_test, subject_text, body_text), strip(gen_text),
               complaint, s_success, 3),
      LogEntry(Email(id_generated, from_test, subject_text, body_text), tmpl_inquiry,
               inquiry, s_success, 4),
      LogEntry(Email(id_test001, from_test, subject_text, body_text),
               msg_error_processing \o other \o msg_colon \o exc_permission,
               other, s_error, 5) }

InitWriters ==
    /\ pc = "idle"
    /\ supplied = NonDict(type_NoneType, py_None)
    /\ email = NonDict(type_NoneType, py_None)
    /\ classification = None
    /\ response = None
    /\ caught = None
    /\ result = NoResult
    /\ store \in InitialStores
    /\ clock = Len(store)
    /\ runs = 0
    /\ store0 = store
    /\ raw = NoRaw
    /\ events = <<>>
    /\ writers \in [1..MaxWriters ->
                       {[pc |-> "start", existing |-> <<>>, entry |-> e] : e \in WriterEntries}]

\* lines 64-67: existing is the list the file holds now ([] when there is none)
Load(t) ==
    /\ writers[t].pc = "start"
    /\ writers' = [writers EXCEPT ![t] = [pc |-> "loaded", existing |-> store,
                                          entry |-> writers[t].entry]]
    /\ UNCHANGED <<pc, supplied, email, classification, response, caught, result, store,
                   clock, runs, store0, raw, events>>

\* lines 69-72: the list read earlier, with the entry appended, replaces the file
Rewrite(t) ==
    /\ writers[t].pc = "loaded"
    /\ store' = log_sent_response(writers[t].existing, writers[t].entry)
    /\ writers' = [writers EXCEPT ![t] = [pc |-> "done", existing |-> writers[t].existing,
                                          entry |-> writers[t].entry]]
    /\ events' = Append(events, Event("log_sent_response", writers[t].entry.email_id,
                                      writers[t].entry.classification,
                                      writers[t].entry.status,
                                      writers[t].entry.timestamp, "ok"))
    /\ UNCHANGED <<pc, supplied, email, classification, response, caught, result, clock,
                   runs, store0, raw>>

NextWriters ==
    \/ \E t \in 1..MaxWriters : Load(t)
    \/ \E t \in 1..MaxWriters : Rewrite(t)

SpecWriters == InitWriters /\ [][NextWriters]_vars

(***************************************************************************)
(* Properties                                                              *)
(***************************************************************************)
\* process_email has returned: result is the dict it returned
Returned == pc = "done"

IsDict(e) == e.type = type_dict

EventsOf(op) == {i \in DOMAIN events : events[i].op = op}

\* the send of the current run raised / completed
SendRaised == \E i \in EventsOf("send_email") : events[i].outcome = "raise"

SendCompleted == \E i \in EventsOf("send_email") : events[i].outcome = "sent"

\* a handler was dispatched in the current run
HandlerRan == EventsOf("generate_response") # {}

Categories == {complaint, inquiry, feedback, support_request, other}

\* C1: in every result process_email returns, whatever the input and the
\* outcomes of the classifier, generator, send, ticketing and log, response_sent
\* is true exactly when status is "success".
C1_ResponseSentIffSuccess ==
    Returned => ((result.response_sent = True) <=> (result.status = s_success))

C1_Witness ==
    /\ Returned
    /\ result.status = s_success
    /\ result.response_sent = True
    /\ SendCompleted

\* C2: when the classifier returned a category c for an email that passed the
\* body check and the send raised, the result carries classification c,
\* response_sent false and status "error"; its email_id is the id of the email
\* record, which is the supplied id whenever that was a string with a digit.
C2_SendFailureResult ==
    (Returned /\ classification \in Categories /\ SendRaised) =>
        /\ result.classification = classification
        /\ result.response_sent = False
        /\ result.status = s_error
        /\ result.email_id = email.id
        /\ (isinstance_str(supplied.id) /\ any_isdigit(supplied.id)) =>
               result.email_id = supplied.id

C2_Witness ==
    /\ Returned
    /\ SendRaised
    /\ supplied.id = id_test001
    /\ result.classification = complaint
    /\ result.email_id = id_test001
    /\ result.status = s_error

\* no log_response call of the current run raised
LogWritable == \A i \in EventsOf("log_response") : events[i].outcome = "ok"

\* C3: every handler invocation appends exactly one LogEntry whatever the
\* outcome of the send and of the side effect; when the send failed, the entry
\* appended has status "error" and the email's id.  (The log file itself is
\* taken to be writable.)
C3_HandlerLogsOnce ==
    (Returned /\ HandlerRan /\ LogWritable) =>
        /\ Len(store) = Len(store0) + 1
        /\ SubSeq(store, 1, Len(store0)) = store0
        /\ SendRaised =>
               /\ store[Len(store)].status = s_error
               /\ store[Len(store)].email_id = email.id

\* C4: create_ticket is called only after the send for the same email
\* completed, and never in a run whose send raised.
C4_TicketOnlyAfterSend ==
    \A i \in EventsOf("create_ticket") :
        /\ \E j \in EventsOf("send_email") :
               /\ j < i
               /\ events[j].outcome = "sent"
               /\ events[j].a = events[i].a
        /\ ~SendRaised

C4_Witness ==
    /\ classification = complaint
    /\ SendCompleted
    /\ \E i \in EventsOf("create_ticket") : events[i].c = complaint

\* the classifier was called in the current run
ClassifierCalled == EventsOf("classify_email") # {}

\* C5: when the classifier returned absence, process_email returns
\* classification absent, response_sent not true, status "error" and a message
\* saying that classification failed, and no handler ran: nothing was
\* generated, sent, ticketed or logged.
C5_ClassificationFailure ==
    (Returned /\ ClassifierCalled /\ classification = None) =>
        /\ result.classification = None
        /\ result.response_sent # True
        /\ result.status = s_error
        /\ Contains(result.error_message, classification_failed)
        /\ EventsOf("generate_response") = {}
        /\ EventsOf("send_email") = {}
        /\ EventsOf("create_ticket") = {}
        /\ EventsOf("log_response") = {}
        /\ store = store0

C5_Witness ==
    /\ Returned
    /\ ClassifierCalled
    /\ raw = LLMContent(raw06)
    /\ classification = None
    /\ result.status = s_error

\* the key is absent, or its value is text that is blank after trimming
MissingOrBlank(x) == x = Absent \/ (isinstance_str(x) /\ strip(x) = <<>>)

\* C6: for an email whose body is missing or blank after trimming,
\* process_email returns status "error", classification absent and a message
\* naming the missing or empty body, and makes no model call.
C6_MissingBody ==
    (Returned /\ IsDict(supplied) /\ MissingOrBlank(supplied.body)) =>
        /\ result.status = s_error
        /\ result.classification = None
        /\ Contains(result.error_message, missing_or_empty_body)
        /\ events = <<>>

C6_Witness ==
    /\ Returned
    /\ supplied.body = body_blank
    /\ result.status = s_error
    /\ Contains(result.error_message, missing_or_empty_body)

\* C7: a model call happens only for an email whose subject and body are both
\* present and non-blank after trimming.
C7_ModelCallOnlyIfNonBlank ==
    EventsOf("llm") # {} =>
        /\ ~MissingOrBlank(email.subject) /\ isinstance_str(email.subject)
        /\ ~MissingOrBlank(email.body) /\ isinstance_str(email.body)

\* C8: whatever the backend answered, classify_email returned one of the five
\* canonical lowercase categories or None, and so does the classification field
\* of the result.
C8_ClassificationClosed ==
    /\ classification \in Categories \cup {None}
    /\ result.classification \in Categories \cup {None}

C8_Witness ==
    /\ pc = "classify2"
    /\ raw = LLMContent(raw04)
    /\ classification = support_request

\* classify_email extracted a category value from the backend's answer
HasExtracted(out) ==
    /\ out.kind = "content"
    /\ ~falsy(_call_llm(out))
    /\ LET parsed == json_loads(CleanContent(_call_llm(out)))
       IN  /\ parsed.ok
           /\ parsed.val.t = "dict"
           /\ ExtractClassification(parsed.val).t # "NoneType"

\* that value as text
ExtractedText(out) ==
    py_str(ExtractClassification(json_loads(CleanContent(_call_llm(out))).val))

\* C9: an extracted value that equals a canonical category after trimming and
\* case folding yields that category, any other extracted value yields None,
\* and "other" is returned only when the extracted value names "other".
C9_CanonicalOrAbsent ==
    /\ (raw # NoRaw /\ HasExtracted(raw)) =>
           LET folded == lower(strip(ExtractedText(raw)))
           IN  /\ folded \in Categories => classification = folded
               /\ folded \notin Categories => classification = None
    /\ classification = other =>
           /\ raw # NoRaw
           /\ HasExtracted(raw)
           /\ lower(strip(ExtractedText(raw))) = other

C9_Witness ==
    /\ pc = "classify2"
    /\ raw = LLMContent(raw06)
    /\ HasExtracted(raw)
    /\ classification = None

\* C10: for an input that is not a dict the result has status "error",
\* classification absent and email_id "unknown", and nothing was classified,
\* generated, sent, ticketed or logged.
C10_NotADict ==
    (Returned /\ ~IsDict(supplied)) =>
        /\ result.status = s_error
        /\ result.classification = None
        /\ result.email_id = s_unknown
        /\ events = <<>>
        /\ store = store0

C10_Witness ==
    /\ Returned
    /\ supplied = NonDict(type_str, not_a_dict)
    /\ result.email_id = s_unknown
    /\ result.status = s_error

\* C11: for every email that is a dict, whatever its id (absent, not a string,
\* without a digit, with a digit) and whatever path the call takes, the
\* email_id of the result is a non-empty string with at least one digit and is
\* the id the email record carries after the call.
C11_EmailIdHasDigit ==
    (Returned /\ IsDict(supplied)) =>
        /\ isinstance_str(result.email_id)
        /\ result.email_id # <<>>
        /\ any_isdigit(result.email_id)
        /\ result.email_id = email.id
        /\ result.original_email.id = result.email_id

C11_Witness ==
    /\ Returned
    /\ supplied.id = id_abc
    /\ result.email_id \in GeneratedIds
    /\ email.id = result.email_id
    /\ result.status = s_success

\* C12: for each of the five categories c: when the classifier returned c, the
\* send completed and the log file could be written, the result has
\* classification c, response_sent true and status "success", and its
\* email_id is the record's id, which is the supplied id when that was a string
\* with a digit.  (Whatever the generator returned: a reply text or nothing.)
C12_SuccessPath ==
    \A c \in Categories :
        (Returned /\ classification = c /\ SendCompleted /\ LogWritable) =>
            /\ result.classification = c
            /\ result.response_sent = True
            /\ result.status = s_success
            /\ result.email_id = email.id
            /\ (isinstance_str(supplied.id) /\ any_isdigit(supplied.id)) =>
                   result.email_id = supplied.id

C12_Witness ==
    /\ Returned
    /\ supplied = Email(id_test001, from_test, subject_text, body_text)
    /\ classification = support_request
    /\ response = strip(gen_text)
    /\ SendCompleted
    /\ LogWritable
    /\ result.status = s_success
    /\ result.email_id = id_test001

\* the create_ticket call of the current run was refused or raised
TicketFailed ==
    \E i \in EventsOf("create_ticket") : events[i].outcome \in {"rejected", "exception"}

\* C17: a failure of create_ticket (an exception or a status other than 201)
\* never leaves create_ticket: after it the handler stands at the success log
\* with no exception caught, and, the log file being writable, the entry it
\* appends has status "success" and process_email returns status "success"
\* with response_sent true.
C17_TicketFailureSwallowed ==
    (TicketFailed /\ LogWritable) =>
        /\ pc \in {"log", "done"}
        /\ caught = None
        /\ Returned =>
               /\ result.status = s_success
               /\ result.response_sent = True
               /\ result.error_message = Absent
               /\ Len(store) = Len(store0) + 1
               /\ store[Len(store)].status = s_success
               /\ store[Len(store)].email_id = email.id

C17_Witness ==
    /\ Returned
    /\ \E i \in EventsOf("create_ticket") : events[i].outcome = "exception"
    /\ SendCompleted
    /\ LogWritable
    /\ result.status = s_success
    /\ store[Len(store)].status = s_success

\* C18: every result whose status is "error" carries an error_message, a
\* non-empty string.
C18_ErrorHasMessage ==
    (Returned /\ result.status = s_error) =>
        /\ result.error_message # Absent
        /\ result.error_message # None
        /\ result.error_message # <<>>

\* the text classify_email got back is a JSON object inside a fence
FencedObject(out) ==
    /\ out.kind = "content"
    /\ ~falsy(_call_llm(out))
    /\ startswith(_call_llm(out), Fence)
    /\ endswith(_call_llm(out), Fence)
    /\ json_loads(CleanContent(_call_llm(out))).ok
    /\ json_loads(CleanContent(_call_llm(out))).val.t = "dict"

\* the text classify_email got back is a JSON object, fenced or bare
AnyObject(out) ==
    /\ out.kind = "content"
    /\ ~falsy(_call_llm(out))
    /\ json_loads(CleanContent(_call_llm(out))).ok
    /\ json_loads(CleanContent(_call_llm(out))).val.t = "dict"

\* a key that is "classification" or "category" in some mix of cases
AcceptedKey(k) == lower(k) \in {key_classification, key_category}

\* C19: classify_email strips a surrounding fence and matches the key without
\* regard to case: a fenced object whose one key is any case variant of
\* "classification" or "category" and whose value is any case variant of a
\* canonical category yields that category; an object with no such key yields
\* None.
C19_KeyCaseInsensitive ==
    /\ FencedObject(raw) =>
           LET d == json_loads(CleanContent(_call_llm(raw))).val
           IN  \A n \in 1..Len(d.v) :
                   (/\ Len(d.v) = 1
                    /\ AcceptedKey(d.v[n][1])
                    /\ d.v[n][2].t = "str"
                    /\ lower(strip(d.v[n][2].v)) \in Categories)
                   => classification = lower(strip(d.v[n][2].v))
    /\ AnyObject(raw) =>
           LET d == json_loads(CleanContent(_call_llm(raw))).val
           IN  (\A n \in 1..Len(d.v) : ~AcceptedKey(d.v[n][1])) => classification = None

\* how far a call of process_email has got
Rank(p) ==
    CASE p = "idle" -> 0
      [] p = "classify1" -> 1
      [] p = "classify2" -> 2
      [] p = "generate" -> 3
      [] p = "send" -> 4
      [] p = "extra" -> 5
      [] p = "log" -> 6
      [] p = "log_error" -> 7
      [] p = "done" -> 8
      [] p = "raised" -> 9

\* a step of the call under way, the model call timing out where there is one
SomeStep ==
    \/ ClassifyFirst(LLMRaise("APITimeoutError"))
    \/ ClassifySecond(LLMRaise("APITimeoutError"))
    \/ Generate(LLMRaise("APITimeoutError"))
    \/ \E outcome \in SendOutcomes : Send(outcome)
    \/ \E outcome \in BatchTicketOutcomes : ExtraAction(outcome)
    \/ \E outcome \in LogOutcomes : LogSuccess(outcome)
    \/ \E outcome \in LogOutcomes : LogError(outcome)

\* C13: every call of process_email ends by returning exactly one result and
\* never lets an exception out, whichever collaborators fail: no state has an
\* exception leaving process_email, a result exists exactly when the call has
\* returned, a call under way always has a next step and every step takes it
\* strictly further (so it ends within eight steps), and after a call has
\* returned, with a failure or not, the next email of the batch is accepted.
C13_AlwaysReturns ==
    /\ [](/\ pc # "raised"
          /\ Returned <=> (result # NoResult)
          /\ pc \notin {"idle", "done"} => ENABLED SomeStep
          /\ (Returned /\ runs < MaxBatch) =>
                 \A e \in BatchInputs : ENABLED BatchSubmit(e, id_generated))
    /\ [][\/ (pc \in {"idle", "done"} /\ runs' = runs + 1 /\ Rank(pc') \in 1..8)
          \/ (pc \notin {"idle", "done"} /\ runs' = runs /\ Rank(pc') > Rank(pc)
                 /\ Rank(pc') <= 8)]_vars

\* the second call of a batch succeeded after the first one failed with both
\* of its log_response calls raising
C13_Witness ==
    /\ Returned
    /\ runs = 2
    /\ result.status = s_success
    /\ LogWritable
    /\ clock = Len(store) + 2

\* the step is a log_response call that did not raise
LogCallCompleted ==
    /\ Len(events') = Len(events) + 1
    /\ events'[Len(events')].op = "log_response"
    /\ events'[Len(events')].outcome = "ok"

C20_IdIdempotent ==
    /\ []((Returned /\ IsDict(supplied) /\ isinstance_str(supplied.id)
              /\ any_isdigit(supplied.id)) =>
             /\ result.email_id = supplied.id
             /\ email.id = supplied.id)
    /\ [][(Returned /\ IsDict(email) /\ runs' = runs + 1 /\ supplied' = email) =>
             /\ email'.id = result.email_id
             /\ email' = email]_vars

\* a record without a digit in its id, handed in again after the backfill
C20_Witness ==
    /\ Returned
    /\ runs = 2
    /\ supplied.id \in BatchGeneratedIds
    /\ supplied.subject = subject_text
    /\ result.email_id = supplied.id
    /\ result.status = s_success

\* the generation call failed or brought back no text
GenerationFailed(out) == out.kind # "content" \/ falsy(out.content) \/ strip(out.content) = <<>>

WritersDone == writers # <<>> /\ \A t \in DOMAIN writers : writers[t].pc = "done"

\* C15: log_sent_response calls running side by side do not lose an update:
\* once all of them have returned, the file holds the entries it held before,
\* followed by one entry per call, every call's entry among them, in the order
\* the calls wrote.
C15_NoLostUpdate ==
    WritersDone =>
        /\ Len(store) = Len(store0) + Len(writers)
        /\ SubSeq(store, 1, Len(store0)) = store0
        /\ \A t \in DOMAIN writers :
               \E i \in (Len(store0) + 1)..Len(store) : store[i] = writers[t].entry
        /\ \A k \in DOMAIN events :
               /\ Len(store0) + k <= Len(store)
               /\ store[Len(store0) + k].email_id = events[k].a
               /\ store[Len(store0) + k].timestamp = events[k].d

\* C21: an email whose subject is missing or empty, its body not blank, ends
\* with status "error" and classification None, and its run makes no model
\* call, no send, no ticket and no log append.
C21_MissingSubject ==
    (/\ Returned
     /\ IsDict(supplied)
     /\ supplied.subject \in {Absent, <<>>}
     /\ ~MissingOrBlank(supplied.body)
     /\ supplied.body # None) =>
        /\ result.status = s_error
        /\ result.classification = None
        /\ result.response_sent # True
        /\ EventsOf("llm") = {}
        /\ EventsOf("send_email") = {}
        /\ EventsOf("create_ticket") = {}
        /\ EventsOf("log_response") = {}
        /\ store = store0

C21_Witness ==
    /\ Returned
    /\ supplied.subject = Absent
    /\ supplied.body = body_text
    /\ ClassifierCalled
    /\ result.status = s_error
    /\ Contains(result.error_message, classification_failed)

\* the send of the current run was handed the text
SentText(text) == \E i \in EventsOf("send_email") : events[i].d = text

\* a log_response call of the current run raised
LogFailed == \E i \in EventsOf("log_response") : events[i].outcome = "raise"

\* C22: a generation failure is not an error: when the classification gave a
\* category and the generation call failed or brought back no text, the
\* handler sends the category's fallback reply, which is not empty, and when
\* that send completed process_email returns status "success" with
\* response_sent true.
C22_GenerationFallback ==
    (/\ classification \in Categories
     /\ EventsOf("send_email") # {}
     /\ response = _get_fallback_template(classification)) =>
        /\ response # <<>>
        /\ SentText(response)
        /\ (Returned /\ SendCompleted) =>
               /\ result.status = s_success
               /\ result.response_sent = True

\* C23: a failure of the log file does not change the handler's status: when
\* the send completed and a log_response call raised, process_email returns
\* status "success", response_sent true and the category.
C23_LogFailureNotFatal ==
    (Returned /\ SendCompleted /\ LogFailed) =>
        /\ result.status = s_success
        /\ result.response_sent = True
        /\ result.classification = classification

\* C24: whenever the model backend raises during a classification call,
\* classify_email returns None, the exception is handed to handle_openai_error,
\* which names it rate-limited, connection error, auth error, timeout or
\* unknown, and the model call is not made again by classify_email.
C24_BackendErrorRouted ==
    (raw.kind = "raise" /\ ClassifierCalled) =>
        /\ classification = None
        /\ \E i \in EventsOf("handle_openai_error") :
               /\ events[i].a = raw.exc
               /\ <<raw.exc, events[i].b>> \in
                      {<<"RateLimitError", "rate_limited">>,
                       <<"APIConnectionError", "connection_error">>,
                       <<"AuthenticationError", "auth_error">>,
                       <<"APITimeoutError", "timeout">>,
                       <<"Exception", "unknown">>}
        /\ Cardinality(EventsOf("llm")) = Cardinality(EventsOf("classify_email"))

\* the categories whose handler has a side effect
TicketCategories == {complaint, support_request, feedback}

\* C25: the handler that runs is the one of the category classify_email
\* returned, and a category without a table entry gets the "other" handler; a
\* ticket is created only for complaint, support_request and feedback, with
\* the category as its type, and never for inquiry or other.
C25_Dispatch ==
    /\ \A i \in EventsOf("generate_response") : events[i].a = classification
    /\ \A i \in EventsOf("send_email") :
           events[i].c = IF classification = complaint THEN subject_complaint
                         ELSE subject_standard
    /\ \A i \in EventsOf("create_ticket") :
           /\ classification \in TicketCategories
           /\ events[i].c = classification
    /\ classification \in {inquiry, other} => EventsOf("create_ticket") = {}
    /\ response_handlers_get(spam) = _handle_other

C25_Witness ==
    /\ Returned
    /\ classification = feedback
    /\ SendCompleted
    /\ \E i \in EventsOf("create_ticket") : events[i].c = feedback /\ events[i].b = body_text
    /\ result.status = s_success

\* C26: in one handler run the calls come in the order generate, send, side
\* effect, log: each of generate, send and side effect happens at most once
\* and at most one entry is appended; every log_response call comes after
\* the send has returned or raised, and the side effect, when there is one,
\* comes after the send and before every log_response call.
C26_EventOrder ==
    /\ Cardinality(EventsOf("generate_response")) <= 1
    /\ Cardinality(EventsOf("send_email")) <= 1
    /\ Cardinality(EventsOf("create_ticket")) <= 1
    /\ Cardinality({i \in EventsOf("log_response") : events[i].outcome = "ok"}) <= 1
    /\ Len(store) <= Len(store0) + 1
    /\ \A s \in EventsOf("send_email") : \E g \in EventsOf("generate_response") : g < s
    /\ \A t \in EventsOf("create_ticket") : \E s \in EventsOf("send_email") : s < t
    /\ \A l \in EventsOf("log_response") :
           /\ \E s \in EventsOf("send_email") : s < l
           /\ \A t \in EventsOf("create_ticket") : t < l
    /\ store # store0 => EventsOf("send_email") # {}

C26_Witness ==
    /\ Returned
    /\ \E g \in EventsOf("generate_response"), s \in EventsOf("send_email"),
          t \in EventsOf("create_ticket"), l \in EventsOf("log_response") :
           /\ g < s
           /\ s < t
           /\ t < l
           /\ events[l].outcome = "ok"
    /\ Len(store) = Len(store0) + 1

\* C27: every call of process_email on a dict email appends exactly one
\* LogEntry, carrying that email's id, whether the run ends in success or in
\* an error (validation error, classification failure, send failure).  (The log
\* file is taken to be writable.)
C27_EveryAttemptLogged ==
    (Returned /\ IsDict(supplied) /\ LogWritable) =>
        /\ Len(store) = Len(store0) + 1
        /\ SubSeq(store, 1, Len(store0)) = store0
        /\ store[Len(store)].email_id = email.id
        /\ store[Len(store)].status = result.status

\* C28: process_email leaves the email it was given as it was, except for
\* its id: from, subject, body and timestamp are the supplied ones in every
\* state of the call, the id differs from the supplied one only when that was
\* absent, not a string or without a digit, the record in the result is that
\* email, and no step after pipeline entry changes the email at all.
C28_EmailFrame ==
    /\ []((IsDict(supplied) /\ pc # "idle") =>
             /\ email.from = supplied.from
             /\ email.subject = supplied.subject
             /\ email.body = supplied.body
             /\ email.timestamp = supplied.timestamp
             /\ email.type = supplied.type
             /\ (email.id # supplied.id) =>
                    (~isinstance_str(supplied.id) \/ ~any_isdigit(supplied.id))
             /\ Returned => result.original_email = email)
    /\ [][pc \notin {"idle", "done"} => email' = email]_vars

C28_Witness ==
    /\ Returned
    /\ supplied = Email(Absent, from_test, subject_text, body_text)
    /\ email = [supplied EXCEPT !.id = id_generated]
    /\ HandlerRan
    /\ result.original_email = email

\* C29: for an email that passes the body check, process_email calls
\* classify_email exactly once, and the category it dispatches on and reports
\* is the value that call returned.
C29_ClassifiedOnce ==
    (Returned /\ ClassifierCalled) =>
        /\ Cardinality(EventsOf("classify_email")) = 1
        /\ Cardinality(EventsOf("llm")) <= 1 + Cardinality(EventsOf("generate_response"))
        /\ result.classification \in {None, classification}

\* the entries the current run appended
Appended == {i \in DOMAIN store : i > Len(store0)}

\* C30: success is never reported without delivery and record: whenever
\* process_email returns status "success", the send of that run completed and
\* the run appended exactly one entry, with status "success", the email's id
\* and the result's classification; and every entry with status "success" a
\* run appends is for the email of that run, after its send completed.
C30_SuccessMeansSentAndLogged ==
    /\ (Returned /\ result.status = s_success) =>
           /\ SendCompleted
           /\ ~SendRaised
           /\ Cardinality(Appended) = 1
           /\ SubSeq(store, 1, Len(store0)) = store0
           /\ store[Len(store)].status = s_success
           /\ store[Len(store)].email_id = result.email_id
           /\ store[Len(store)].email_id = email.id
           /\ store[Len(store)].classification = result.classification
    /\ \A i \in Appended :
           store[i].status = s_success =>
               /\ SendCompleted
               /\ store[i].email_id = email.id
               /\ store[i].classification = classification

C30_Witness ==
    /\ Returned
    /\ result.status = s_success
    /\ result.classification = other
    /\ store0 = PriorEntries
    /\ Len(store) = 3
    /\ store[3].status = s_success
    /\ store[3].classification = other

====
